---- MODULE Spec2Model ----
(***************************************************************************)
(* A model of include/ics_vector.hpp: the class template Vector<T> and its *)
(* nested Iterator.  T is instantiated by a small value type whose         *)
(* default value is DefaultT, whose copy and move assignment both store    *)
(* the source's value, and whose destructor leaves no value behind.        *)
(*                                                                         *)
(* Storage is a heap of arrays obtained by new T[n] and released by        *)
(* delete[].  Each slot records whether an object is alive in it (its      *)
(* lifetime has begun and not ended) and the value it holds.               *)
(***************************************************************************)
EXTENDS Integers, Sequences, FiniteSets, TLC

\* ------------------------------------------------------------- bounds
\* Width of size_t in the model: arithmetic on sizes and indices is mod 2^SizeBits.
SizeBits == 3
\* Largest capacity a caller asks for (constructor, resize) or growth may reach.
MaxCap == 4
\* The same limit where iterators are kept across mutations (SpecIt) and where
\* two containers are modelled together (SpecPair).
ItCap == 2
PairCap == 2
\* The same limit where two containers and the iterators into both are modelled
\* together (SpecErrors).
ErrCap == 1
\* Number of distinct element values callers append.
NumValues == 2

SizeMod == 2 ^ SizeBits
SizeT == 0 .. (SizeMod - 1)
Wrap(x) == ((x % SizeMod) + SizeMod) % SizeMod

\* The two Vector objects of the model ("a" = 1, "b" = 2) and the two Iterator
\* objects callers hold.
Vecs == {1, 2}
Its == {1, 2}

Values == 1 .. NumValues
DefaultT == 0
\* The content of storage in which no object is alive, or that lies outside
\* every array: no value the program may rely on.
Indet == -1

NullBuf == 0
Bufs == 1 .. (Cardinality(Vecs) + 1)

\* ------------------------------------------------------------- storage
Slot(l, x) == [live |-> l, val |-> x]

\* The storage one operation works on, and the flags its accesses raise.
\*   behind   the array lying right behind the one the operation works on
\*            (NullBuf: none); where operator new[] places arrays is not the
\*            program's choice
\*   ub       an access through a null pointer or outside the array
\*   dtorDead a destructor call on a slot holding no live object
\*   asgDead  an assignment to a slot holding no live object
Mem(hp) == [heap |-> hp, behind |-> NullBuf, ub |-> FALSE, dtorDead |-> FALSE, asgDead |-> FALSE]
MemBehind(hp, bh) == [Mem(hp) EXCEPT !.behind = bh]

InBuf(hp, b, i) == b # NullBuf /\ i >= 0 /\ i < Len(hp[b])

\* m_buffer[i] read as an rvalue.
MRead(M, b, i) == IF InBuf(M.heap, b, i) THEN M.heap[b][i + 1].val ELSE Indet

\* m_buffer[i] = x  (T's copy or move assignment; it does not begin a lifetime).
\* A write past the end of the array has undefined behaviour: it lands in the
\* array behind it, if there is one and it reaches that far, or in no object.
MAssign(M, b, i, x) ==
    IF InBuf(M.heap, b, i)
    THEN [M EXCEPT !.heap[b][i + 1].val = x,
                   !.asgDead = @ \/ ~M.heap[b][i + 1].live]
    ELSE IF b # NullBuf /\ M.behind # NullBuf /\ InBuf(M.heap, M.behind, i - Len(M.heap[b]))
    THEN [M EXCEPT !.ub = TRUE, !.heap[M.behind][i - Len(M.heap[b]) + 1].val = x]
    ELSE [M EXCEPT !.ub = TRUE]

\* dst[di] = std::move(src[si])  /  dst[di] = src[si]
MCopy(M, db, di, sb, si) ==
    LET M1 == MAssign(M, db, di, MRead(M, sb, si))
    IN  [M1 EXCEPT !.ub = @ \/ ~InBuf(M.heap, sb, si)]

\* m_buffer[i].~T()
MDestruct(M, b, i) ==
    IF InBuf(M.heap, b, i)
    THEN [M EXCEPT !.heap[b][i + 1] = Slot(FALSE, Indet),
                   !.dtorDead = @ \/ ~M.heap[b][i + 1].live]
    ELSE [M EXCEPT !.ub = TRUE]

\* The array new T[n] returns: the lowest free address.
FreshBuf(hp) == CHOOSE b \in Bufs : hp[b] = <<>> /\ \A c \in Bufs : hp[c] = <<>> => b <= c

\* new T[n], n > 0: every one of the n elements is default-constructed.
MNewArray(M, b, n) == [M EXCEPT !.heap[b] = [i \in 1 .. n |-> Slot(TRUE, DefaultT)]]

\* delete[] p: a no-op on a null pointer; else the destructor of every element
\* of the array runs and the array is released.
MDeleteArray(M, b) ==
    IF b = NullBuf
    THEN M
    ELSE [M EXCEPT !.heap[b] = <<>>,
                   !.dtorDead = @ \/ \E i \in 1 .. Len(M.heap[b]) : ~M.heap[b][i].live]

\* ------------------------------------------------------------- Vector
\* The fields of a Vector object; alive = between its constructor and destructor.
VecRec(al, c, s, b) == [alive |-> al, m_capacity |-> c, m_size |-> s, m_buffer |-> b]
NoVec == VecRec(FALSE, 0, 0, NullBuf)

\* The outcome of one member function: the objects, the storage, what it threw.
Out(vs, M, e) == [vec |-> vs, mem |-> M, err |-> e]

\* A resize loop that moves nothing into the new array.
ResizeLoopNoMove(M, nb, ob, i, n) == M

\* resize(): the loop of lines 418-423 from index i.
RECURSIVE ResizeLoop(_, _, _, _, _)
ResizeLoop(M, nb, ob, i, n) ==
    IF i >= n
    THEN M
    ELSE ResizeLoop(MDestruct(MCopy(M, nb, i, ob, i), ob, i), nb, ob, i + 1, n)

\* A resize that copies the surviving elements but keeps m_size when it shrinks.
ResizeKeepSize(vs, M, v, new_capacity, allocOk) ==
    IF new_capacity = vs[v].m_capacity
    THEN Out(vs, M, "none")
    ELSE IF new_capacity > 0 /\ ~allocOk
    THEN Out(vs, M, "bad_alloc")
    ELSE LET new_buffer == IF new_capacity > 0 THEN FreshBuf(M.heap) ELSE NullBuf
             M1 == IF new_capacity > 0 THEN MNewArray(M, new_buffer, new_capacity) ELSE M
             copy_size == IF new_capacity < vs[v].m_size THEN new_capacity ELSE vs[v].m_size
             M2 == ResizeLoop(M1, new_buffer, vs[v].m_buffer, 0, copy_size)
             M3 == MDeleteArray(M2, vs[v].m_buffer)
         IN  Out([vs EXCEPT ![v] = VecRec(TRUE, new_capacity, vs[v].m_size, new_buffer)],
                 M3, "none")

\* void resize(size_t new_capacity); allocOk: whether new T[] succeeds.
Resize(vs, M, v, new_capacity, allocOk) ==
    IF new_capacity = vs[v].m_capacity
    THEN Out(vs, M, "none")
    ELSE IF new_capacity > 0 /\ ~allocOk
    THEN Out(vs, M, "bad_alloc")
    ELSE LET new_buffer == IF new_capacity > 0 THEN FreshBuf(M.heap) ELSE NullBuf
             M1 == IF new_capacity > 0 THEN MNewArray(M, new_buffer, new_capacity) ELSE M
             copy_size == IF new_capacity < vs[v].m_size THEN new_capacity ELSE vs[v].m_size
             M2 == ResizeLoop(M1, new_buffer, vs[v].m_buffer, 0, copy_size)
             M3 == MDeleteArray(M2, vs[v].m_buffer)
         IN  Out([vs EXCEPT ![v] = VecRec(TRUE, new_capacity, copy_size, new_buffer)],
                 M3, "none")

\* A growth policy that adds one slot instead of doubling.
GrowToPlusOne(m_capacity) == Wrap(m_capacity + 1)

\* The capacity push_back grows to (line 342).
GrowTo(m_capacity) == IF m_capacity = 0 THEN 1 ELSE Wrap(m_capacity * 2)

\* void push_back(const T&) and void push_back(T&&).
PushBack(vs, M, v, value, allocOk) ==
    LET R == IF vs[v].m_size >= vs[v].m_capacity
             THEN Resize(vs, M, v, GrowTo(vs[v].m_capacity), allocOk)
             ELSE Out(vs, M, "none")
    IN  IF R.err # "none"
        THEN R
        ELSE Out([R.vec EXCEPT ![v].m_size = Wrap(@ + 1)],
                 MAssign(R.mem, R.vec[v].m_buffer, R.vec[v].m_size, value), "none")

\* A pop_back that decrements m_size before it tests for the empty container.
PopBackDecrementFirst(vs, M, v) ==
    IF vs[v].m_size = 0
    THEN Out([vs EXCEPT ![v].m_size = Wrap(@ - 1)], M, "empty")
    ELSE Out([vs EXCEPT ![v].m_size = @ - 1],
             MDestruct(M, vs[v].m_buffer, vs[v].m_size - 1), "none")

\* void pop_back().
PopBack(vs, M, v) ==
    IF vs[v].m_size = 0
    THEN Out(vs, M, "empty")
    ELSE Out([vs EXCEPT ![v].m_size = @ - 1],
             MDestruct(M, vs[v].m_buffer, vs[v].m_size - 1), "none")

\* An Iterator object: the container it points into and its index.
ItRec(c, i) == [m_container |-> c, index |-> i]

\* An iterator comparison that looks at the indices only.
ItEqByIndex(x, y) == x.index = y.index

\* bool Iterator::operator==(const Iterator&).
ItEq(x, y) == x.m_container = y.m_container /\ x.index = y.index

\* The loop of lines 382-384 with the destination index lacking start_idx.
RECURSIVE EraseMoveLoopFromZero(_, _, _, _, _, _)
EraseMoveLoopFromZero(M, b, start_idx, end_idx, i, m_size) ==
    IF i >= m_size
    THEN M
    ELSE EraseMoveLoopFromZero(MCopy(M, b, Wrap(i - end_idx), b, i),
                               b, start_idx, end_idx, i + 1, m_size)

\* erase(): the loop of lines 382-384 from index i.
RECURSIVE EraseMoveLoop(_, _, _, _, _, _)
EraseMoveLoop(M, b, start_idx, end_idx, i, m_size) ==
    IF i >= m_size
    THEN M
    ELSE EraseMoveLoop(MCopy(M, b, Wrap(start_idx + Wrap(i - end_idx)), b, i),
                       b, start_idx, end_idx, i + 1, m_size)

\* erase(): the loop of lines 387-389 from index i.
RECURSIVE EraseDestroyLoop(_, _, _, _)
EraseDestroyLoop(M, b, i, m_size) ==
    IF i >= m_size
    THEN M
    ELSE EraseDestroyLoop(MDestruct(M, b, i), b, i + 1, m_size)

\* void erase(Iterator start, Iterator end).
Erase(vs, M, v, start, end) ==
    IF ItEq(start, end)
    THEN Out(vs, M, "none")
    ELSE LET start_idx == start.index
             end_idx == end.index
             count == Wrap(end_idx - start_idx)
             M1 == EraseMoveLoop(M, vs[v].m_buffer, start_idx, end_idx, end_idx, vs[v].m_size)
             M2 == EraseDestroyLoop(M1, vs[v].m_buffer, Wrap(vs[v].m_size - count), vs[v].m_size)
         IN  Out([vs EXCEPT ![v].m_size = Wrap(@ - count)], M2, "none")

\* void swap_elements(Iterator lhs, Iterator rhs): std::swap on the two slots.
SwapElements(vs, M, v, lhs, rhs) ==
    LET b == vs[v].m_buffer
        x == MRead(M, b, lhs.index)
        y == MRead(M, b, rhs.index)
        M1 == MAssign(MAssign(M, b, lhs.index, y), b, rhs.index, x)
    IN  Out(vs, M1, "none")

\* clear(): the loop of lines 439-441 from index i.
RECURSIVE ClearLoop(_, _, _, _)
ClearLoop(M, b, i, m_size) ==
    IF i >= m_size THEN M ELSE ClearLoop(MDestruct(M, b, i), b, i + 1, m_size)

\* void clear().
Clear(vs, M, v) ==
    Out([vs EXCEPT ![v].m_size = 0], ClearLoop(M, vs[v].m_buffer, 0, vs[v].m_size), "none")

\* The element-wise copy loops of lines 180-183 and 201-203 from index i.
RECURSIVE CopyLoop(_, _, _, _, _)
CopyLoop(M, db, sb, i, m_size) ==
    IF i >= m_size THEN M ELSE CopyLoop(MCopy(M, db, i, sb, i), db, sb, i + 1, m_size)

\* Vector(): the default constructor.
CtorDefault(vs, M, v) == Out([vs EXCEPT ![v] = VecRec(TRUE, 0, 0, NullBuf)], M, "none")

\* Vector(size_t capacity).  A constructor that throws constructs no object.
CtorCapacity(vs, M, v, capacity, allocOk) ==
    IF capacity > 0 /\ ~allocOk
    THEN Out(vs, M, "bad_alloc")
    ELSE IF capacity > 0
    THEN LET b == FreshBuf(M.heap)
         IN  Out([vs EXCEPT ![v] = VecRec(TRUE, capacity, 0, b)], MNewArray(M, b, capacity), "none")
    ELSE Out([vs EXCEPT ![v] = VecRec(TRUE, capacity, 0, NullBuf)], M, "none")

\* Vector(const Vector& other).
CtorCopy(vs, M, v, other, allocOk) ==
    LET o == vs[other]
    IN  IF o.m_capacity > 0 /\ ~allocOk
        THEN Out(vs, M, "bad_alloc")
        ELSE IF o.m_capacity > 0
        THEN LET b == FreshBuf(M.heap)
                 M1 == MNewArray(M, b, o.m_capacity)
             IN  Out([vs EXCEPT ![v] = VecRec(TRUE, o.m_capacity, o.m_size, b)],
                     CopyLoop(M1, b, o.m_buffer, 0, o.m_size), "none")
        ELSE Out([vs EXCEPT ![v] = VecRec(TRUE, o.m_capacity, o.m_size, NullBuf)], M, "none")

\* Vector& operator=(const Vector& other).
AssignCopy(vs, M, v, other, allocOk) ==
    IF v = other
    THEN Out(vs, M, "none")
    ELSE LET o == vs[other]
             M1 == MDeleteArray(M, vs[v].m_buffer)
             vs1 == [vs EXCEPT ![v] = VecRec(TRUE, o.m_capacity, o.m_size, NullBuf)]
         IN  IF o.m_capacity > 0 /\ ~allocOk
             THEN Out(vs1, M1, "bad_alloc")
             ELSE IF o.m_capacity > 0
             THEN LET b == FreshBuf(M1.heap)
                      M2 == MNewArray(M1, b, o.m_capacity)
                  IN  Out([vs1 EXCEPT ![v].m_buffer = b],
                          CopyLoop(M2, b, o.m_buffer, 0, o.m_size), "none")
             ELSE Out(vs1, M1, "none")

\* Vector(Vector&& other) noexcept.
CtorMove(vs, M, v, other) ==
    Out([vs EXCEPT ![v] = VecRec(TRUE, vs[other].m_capacity, vs[other].m_size, vs[other].m_buffer),
                   ![other] = VecRec(TRUE, 0, 0, NullBuf)], M, "none")

\* A move assignment that leaves other's fields as they were.
AssignMoveKeepSource(vs, M, v, other) ==
    IF v = other
    THEN Out(vs, M, "none")
    ELSE Out([vs EXCEPT ![v] = VecRec(TRUE, vs[other].m_capacity, vs[other].m_size, vs[other].m_buffer)],
             MDeleteArray(M, vs[v].m_buffer), "none")

\* Vector& operator=(Vector&& other) noexcept.
AssignMove(vs, M, v, other) ==
    IF v = other
    THEN Out(vs, M, "none")
    ELSE Out([vs EXCEPT ![v] = VecRec(TRUE, vs[other].m_capacity, vs[other].m_size, vs[other].m_buffer),
                        ![other] = VecRec(TRUE, 0, 0, NullBuf)],
             MDeleteArray(M, vs[v].m_buffer), "none")

\* ~Vector() noexcept: the object is gone afterwards.
Dtor(vs, M, v) == Out([vs EXCEPT ![v] = NoVec], MDeleteArray(M, vs[v].m_buffer), "none")

\* A container comparison that also wants equal capacities.
VecEqSameCapacity(vs, M, v, other) ==
    /\ vs[v].m_capacity = vs[other].m_capacity
    /\ vs[v].m_size = vs[other].m_size
    /\ \A i \in 0 .. (vs[v].m_size - 1) :
           MRead(M, vs[v].m_buffer, i) = MRead(M, vs[other].m_buffer, i)

\* bool operator==(const Vector& other): false at the first mismatch.
RECURSIVE EqLoop(_, _, _, _, _)
EqLoop(M, b, ob, i, m_size) ==
    IF i >= m_size
    THEN TRUE
    ELSE IF MRead(M, b, i) # MRead(M, ob, i) THEN FALSE ELSE EqLoop(M, b, ob, i + 1, m_size)

VecEq(vs, M, v, other) ==
    IF vs[v].m_size # vs[other].m_size
    THEN FALSE
    ELSE EqLoop(M, vs[v].m_buffer, vs[other].m_buffer, 0, vs[v].m_size)

\* ------------------------------------------------------------- Iterator
\* The outcome of one Iterator operation: the iterator it leaves or returns,
\* what it threw, and the value it returns (0 when it returns none).
ItOut(x, e, r) == [it |-> x, err |-> e, ret |-> r]

\* Iterator begin() / Iterator end().
Begin(vs, v) == ItRec(v, 0)
End(vs, v) == ItRec(v, vs[v].m_size)

\* operator++() and operator++(int): the iterator afterwards.
ItInc(vs, x) ==
    IF x.index >= vs[x.m_container].m_size
    THEN ItOut(x, "out_of_range", 0)
    ELSE ItOut(ItRec(x.m_container, Wrap(x.index + 1)), "none", 0)

\* operator--() and operator--(int): the iterator afterwards.
ItDec(vs, x) ==
    IF x.index = 0
    THEN ItOut(x, "out_of_range", 0)
    ELSE ItOut(ItRec(x.m_container, x.index - 1), "none", 0)

\* operator+=(size_t offset).
ItAddAssign(vs, x, offset) ==
    IF Wrap(x.index + offset) > vs[x.m_container].m_size
    THEN ItOut(x, "out_of_range", 0)
    ELSE ItOut(ItRec(x.m_container, Wrap(x.index + offset)), "none", 0)

\* operator-=(size_t offset).
ItSubAssign(vs, x, offset) ==
    IF offset > x.index
    THEN ItOut(x, "out_of_range", 0)
    ELSE ItOut(ItRec(x.m_container, x.index - offset), "none", 0)

\* operator-(size_t offset) const: the iterator returned.
ItMinus(vs, x, offset) ==
    IF offset > x.index
    THEN ItOut(x, "out_of_range", 0)
    ELSE ItOut(ItRec(x.m_container, x.index - offset), "none", 0)

\* operator+(size_t, const Iterator&) and operator+(const Iterator&, size_t):
\* the iterator returned.
ItPlus(vs, x, offset) ==
    LET result == ItRec(x.m_container, Wrap(x.index + offset))
    IN  IF result.index > vs[result.m_container].m_size
        THEN ItOut(x, "out_of_range", 0)
        ELSE ItOut(result, "none", 0)

\* static_cast<std::ptrdiff_t>(size_t): two's complement of the same width.
ToPtrdiff(n) == IF n >= SizeMod \div 2 THEN n - SizeMod ELSE n

\* An iterator difference that never looks at the containers.
ItDiffByIndex(x, other) == ItOut(x, "none", ToPtrdiff(x.index) - ToPtrdiff(other.index))

\* std::ptrdiff_t operator-(const Iterator& other) const.
ItDiff(x, other) ==
    IF x.m_container # other.m_container
    THEN ItOut(x, "cross_container", 0)
    ELSE ItOut(x, "none", ToPtrdiff(x.index) - ToPtrdiff(other.index))

\* A dereference whose bounds test lets the end position through.
ItDerefPastEnd(vs, M, x) ==
    IF x.index > vs[x.m_container].m_size
    THEN ItOut(x, "out_of_range", 0)
    ELSE ItOut(x, "none", MRead(M, vs[x.m_container].m_buffer, x.index))

\* T& operator*() const and T* operator->() const: the element referred to.
ItDeref(vs, M, x) ==
    IF x.index >= vs[x.m_container].m_size
    THEN ItOut(x, "out_of_range", 0)
    ELSE ItOut(x, "none", MRead(M, vs[x.m_container].m_buffer, x.index))

\* An at() whose bounds test lets index = m_size through.
AtPastEnd(vs, M, v, index) ==
    IF index > vs[v].m_size
    THEN ItOut(ItRec(v, index), "out_of_range", 0)
    ELSE ItOut(ItRec(v, index), "none", MRead(M, vs[v].m_buffer, index))

\* T& at(size_t index): the element referred to.
At(vs, M, v, index) ==
    IF index >= vs[v].m_size
    THEN ItOut(ItRec(v, index), "out_of_range", 0)
    ELSE ItOut(ItRec(v, index), "none", MRead(M, vs[v].m_buffer, index))

\* ------------------------------------------------------------- state
VARIABLES
    vec,    \* the Vector objects: Vecs -> VecRec
    heap,   \* the arrays: Bufs -> sequence of slots, <<>> when not allocated
    it,     \* the Iterator objects callers hold: Its -> ItRec (m_container 0: none yet)
    last,   \* the call made last: its name, object, arguments, exception, result
    ub,     \* a call has accessed storage outside an array or through nullptr
    hist    \* how the containers got where they are (history): "appended",
            \* "roundtrip", "copied" or "none"

vars == <<vec, heap, it, last, ub, hist>>

\* The member functions that change a container's elements.
Mutators == {"push_back", "pop_back", "erase", "swap_elements", "resize", "clear"}

\* hist = "appended": container 1 was default-constructed and has since seen only
\*   push_back calls that returned.
\* hist = "roundtrip": container 1 was default-constructed, saw only push_back
\*   calls that returned, and then the pop_back that has just returned.
\* hist = "copied": one container was copy-constructed or copy-assigned from the
\*   other, and both have since seen only calls of Mutators.
HistAfter(op, v, other, e) ==
    IF (e # "none" /\ op # "copy_assign") \/ (op \in {"copy_assign", "move_assign"} /\ v = other)
    THEN hist
    ELSE IF hist = "appended" /\ op = "pop_back" /\ v = 1 /\ last.op = "push_back" /\ last.v = 1
                               /\ last.err = "none"
    THEN "roundtrip"
    ELSE IF op \in Mutators
    THEN (IF hist = "copied" \/ (hist = "appended" /\ (op = "push_back" \/ v # 1)) THEN hist ELSE "none")
    ELSE IF op \in {"Vector_copy", "copy_assign"} /\ e = "none" THEN "copied"
    ELSE IF op = "Vector" /\ v = 1 THEN "appended"
    ELSE IF hist = "appended" /\ v # 1 /\ op \in {"Vector", "Vector_n", "~Vector"} THEN hist
    ELSE "none"

Call(op, v, n1, n2, e, r, M) ==
    [op |-> op, v |-> v, n1 |-> n1, n2 |-> n2, err |-> e, ret |-> r,
     dtorDead |-> M.dtorDead, asgDead |-> M.asgDead]

\* `Vector<T> a;` has run; b is not constructed yet; no iterator was taken.
Init ==
    /\ vec = [v \in Vecs |-> IF v = 1 THEN VecRec(TRUE, 0, 0, NullBuf) ELSE NoVec]
    /\ heap = [b \in Bufs |-> <<>>]
    /\ it = [c \in Its |-> ItRec(0, 0)]
    /\ last = Call("Vector", 1, 0, 0, "none", 0, Mem(heap))
    /\ ub = FALSE
    /\ hist = "appended"

\* operator new[] may return any free address and the program never looks at an
\* address as a number, so states are kept up to a renaming of the arrays: the
\* arrays are numbered in the order the Vector objects refer to them, arrays no
\* Vector refers to after them.
RECURSIVE RefOrder(_, _, _)
RefOrder(vs, v, acc) ==
    IF v \notin Vecs
    THEN acc
    ELSE IF vs[v].m_buffer = NullBuf \/ \E n \in 1 .. Len(acc) : acc[n] = vs[v].m_buffer
    THEN RefOrder(vs, v + 1, acc)
    ELSE RefOrder(vs, v + 1, Append(acc, vs[v].m_buffer))
RECURSIVE AllOrder(_, _, _)
AllOrder(hp, b, acc) ==
    IF b \notin Bufs
    THEN acc
    ELSE IF hp[b] = <<>> \/ \E n \in 1 .. Len(acc) : acc[n] = b
    THEN AllOrder(hp, b + 1, acc)
    ELSE AllOrder(hp, b + 1, Append(acc, b))
BufOrder(vs, hp) == AllOrder(hp, 1, RefOrder(vs, 1, <<>>))
CanonHeap(hp, ord) == [n \in Bufs |-> IF n <= Len(ord) THEN hp[ord[n]] ELSE <<>>]
CanonVec(vs, ord) ==
    [v \in Vecs |-> IF vs[v].m_buffer = NullBuf
                    THEN vs[v]
                    ELSE [vs[v] EXCEPT !.m_buffer = CHOOSE n \in 1 .. Len(ord) : ord[n] = @]]

\* A member function of Vector v returned or threw with outcome Res.
VecStep(Res, op, v, n1, n2) ==
    \E R \in {Res} :
        \E ord \in {BufOrder(R.vec, R.mem.heap)} :
            /\ vec' = CanonVec(R.vec, ord)
            /\ heap' = CanonHeap(R.mem.heap, ord)
            /\ ub' = R.mem.ub
            /\ last' = Call(op, v, n1, n2, R.err, 0, R.mem)
            /\ hist' = HistAfter(op, v, n1, R.err)
            /\ UNCHANGED it

\* An operation on Iterator c left or returned R.it; d is the iterator assigned.
ItStep(R, op, c, d, n2) ==
    /\ it' = [it EXCEPT ![d] = R.it]
    /\ last' = Call(op, c, d, n2, R.err, R.ret, Mem(heap))
    /\ UNCHANGED <<vec, heap, ub, hist>>

\* Every index below m_size designates a slot of v's array.
Intact(v) ==
    /\ vec[v].m_size <= vec[v].m_capacity
    /\ vec[v].m_capacity > 0 => vec[v].m_buffer # NullBuf

\* A run is followed up to the first call that accesses storage outside an array
\* and up to the first state in which a container is not Intact: from there a
\* member function that reads or writes an element does so outside the array,
\* and the program has no defined behaviour to model.
Running == ~ub /\ \A v \in Vecs : Intact(v)

\* Iterator c points into a constructed Vector (a caller obligation).
Usable(c) == it[c].m_container # 0 /\ vec[it[c].m_container].alive

\* ------------------------------------------------------------- actions
DefaultConstruct(v) ==
    /\ Running /\ ~vec[v].alive
    /\ VecStep(CtorDefault(vec, Mem(heap), v), "Vector", v, 0, 0)

CapacityConstruct(v, cap) ==
    /\ Running /\ ~vec[v].alive
    /\ \E capacity \in 0 .. cap, allocOk \in BOOLEAN :
           /\ capacity = 0 => allocOk
           /\ VecStep(CtorCapacity(vec, Mem(heap), v, capacity, allocOk), "Vector_n", v, capacity, 0)

CopyConstruct(v) ==
    /\ Running /\ ~vec[v].alive
    /\ \E other \in Vecs \ {v}, allocOk \in BOOLEAN :
           /\ vec[other].alive
           /\ vec[other].m_capacity = 0 => allocOk
           /\ VecStep(CtorCopy(vec, Mem(heap), v, other, allocOk), "Vector_copy", v, other, 0)

MoveConstruct(v) ==
    /\ Running /\ ~vec[v].alive
    /\ \E other \in Vecs \ {v} :
           /\ vec[other].alive
           /\ VecStep(CtorMove(vec, Mem(heap), v, other), "Vector_move", v, other, 0)

CopyAssign(v) ==
    /\ Running /\ vec[v].alive
    /\ \E other \in Vecs, allocOk \in BOOLEAN :
           /\ vec[other].alive
           /\ (v = other \/ vec[other].m_capacity = 0) => allocOk
           /\ VecStep(AssignCopy(vec, Mem(heap), v, other, allocOk), "copy_assign", v, other, 0)

MoveAssign(v) ==
    /\ Running /\ vec[v].alive
    /\ \E other \in Vecs :
           /\ vec[other].alive
           /\ VecStep(AssignMove(vec, Mem(heap), v, other), "move_assign", v, other, 0)

Destroy(v) ==
    /\ Running /\ vec[v].alive
    /\ VecStep(Dtor(vec, Mem(heap), v), "~Vector", v, 0, 0)

\* push_back is followed while the array it asks for has at most cap elements;
\* an array of half of size_t's range, where m_capacity * 2 would wrap, cannot
\* be allocated.
DoPushBack(v, cap) ==
    /\ Running /\ vec[v].alive
    /\ vec[v].m_size < vec[v].m_capacity \/ vec[v].m_capacity * 2 <= cap
    /\ \E value \in Values, allocOk \in BOOLEAN :
           /\ vec[v].m_size < vec[v].m_capacity => allocOk
           /\ VecStep(PushBack(vec, Mem(heap), v, value, allocOk), "push_back", v, 0, 0)

DoPopBack(v) ==
    /\ Running /\ vec[v].alive
    /\ VecStep(PopBack(vec, Mem(heap), v), "pop_back", v, 0, 0)

\* The arrays that may lie right behind v's when a call on v overruns it: any
\* other allocated array, or none.
Behind(v) == {NullBuf} \cup {b \in Bufs : b # vec[v].m_buffer /\ heap[b] # <<>>}

DoErase(v) ==
    /\ Running /\ vec[v].alive
    /\ \E c \in Its, d \in Its, bh \in Behind(v) :
           /\ it[c].m_container = v /\ it[d].m_container = v
           /\ bh # NullBuf => Erase(vec, MemBehind(heap, bh), v, it[c], it[d]).mem.ub
           /\ VecStep(Erase(vec, MemBehind(heap, bh), v, it[c], it[d]), "erase", v,
                      it[c].index, it[d].index)

DoSwapElements(v) ==
    /\ Running /\ vec[v].alive
    /\ \E c \in Its, d \in Its :
           /\ it[c].m_container = v /\ it[d].m_container = v
           /\ it[c].index < vec[v].m_size /\ it[d].index < vec[v].m_size
           /\ VecStep(SwapElements(vec, Mem(heap), v, it[c], it[d]), "swap_elements", v,
                      it[c].index, it[d].index)

\* v.erase(v.begin() + i, v.begin() + j): the iterators are temporaries.
DoEraseRange(v) ==
    /\ Running /\ vec[v].alive
    /\ \E i \in 0 .. vec[v].m_size, j \in 0 .. vec[v].m_size, bh \in Behind(v) :
           /\ ItPlus(vec, Begin(vec, v), i).err = "none"
           /\ ItPlus(vec, Begin(vec, v), j).err = "none"
           /\ bh # NullBuf => i > j
           /\ VecStep(Erase(vec, MemBehind(heap, bh), v, ItPlus(vec, Begin(vec, v), i).it,
                            ItPlus(vec, Begin(vec, v), j).it), "erase", v, i, j)

\* v.swap_elements(v.begin() + i, v.begin() + j), both positions in range.
DoSwapAt(v) ==
    /\ Running /\ vec[v].alive
    /\ \E i \in 0 .. vec[v].m_size, j \in 0 .. vec[v].m_size :
           /\ i < vec[v].m_size /\ j < vec[v].m_size
           /\ VecStep(SwapElements(vec, Mem(heap), v, ItPlus(vec, Begin(vec, v), i).it,
                                   ItPlus(vec, Begin(vec, v), j).it), "swap_elements", v, i, j)

DoResize(v, cap) ==
    /\ Running /\ vec[v].alive
    /\ \E new_capacity \in 0 .. cap, allocOk \in BOOLEAN :
           /\ (new_capacity = 0 \/ new_capacity = vec[v].m_capacity) => allocOk
           /\ VecStep(Resize(vec, Mem(heap), v, new_capacity, allocOk), "resize", v, new_capacity, 0)

DoClear(v) ==
    /\ Running /\ vec[v].alive
    /\ VecStep(Clear(vec, Mem(heap), v), "clear", v, 0, 0)

TakeBegin(c) ==
    /\ Running
    /\ \E v \in Vecs :
           /\ vec[v].alive
           /\ ItStep(ItOut(Begin(vec, v), "none", 0), "begin", c, c, 0)

TakeEnd(c) ==
    /\ Running
    /\ \E v \in Vecs :
           /\ vec[v].alive
           /\ ItStep(ItOut(End(vec, v), "none", 0), "end", c, c, 0)

Increment(c) ==
    /\ Running /\ Usable(c)
    /\ ItStep(ItInc(vec, it[c]), "++", c, c, 0)

Decrement(c) ==
    /\ Running /\ Usable(c)
    /\ ItStep(ItDec(vec, it[c]), "--", c, c, 0)

AddAssign(c) ==
    /\ Running /\ Usable(c)
    /\ \E offset \in SizeT : ItStep(ItAddAssign(vec, it[c], offset), "+=", c, c, 0)

SubAssign(c) ==
    /\ Running /\ Usable(c)
    /\ \E offset \in SizeT : ItStep(ItSubAssign(vec, it[c], offset), "-=", c, c, 0)

\* d = it + offset; d = offset + it.  Nothing is assigned when operator+ throws.
Plus(c) ==
    /\ Running /\ Usable(c)
    /\ \E offset \in SizeT, d \in Its :
           LET R == ItPlus(vec, it[c], offset)
           IN  ItStep(IF R.err = "none" THEN R ELSE [R EXCEPT !.it = it[d]], "+", c, d, 0)

\* d = it - offset.
Minus(c) ==
    /\ Running /\ Usable(c)
    /\ \E offset \in SizeT, d \in Its :
           LET R == ItMinus(vec, it[c], offset)
           IN  ItStep(IF R.err = "none" THEN R ELSE [R EXCEPT !.it = it[d]], "-", c, d, 0)

\* it - other.
Difference(c) ==
    /\ Running /\ Usable(c)
    /\ \E d \in Its :
           /\ Usable(d)
           /\ ItStep(ItDiff(it[c], it[d]), "diff", c, c, d)

\* it == other.
Compare(c) ==
    /\ Running /\ Usable(c)
    /\ \E d \in Its :
           /\ Usable(d)
           /\ ItStep(ItOut(it[c], "none", IF ItEq(it[c], it[d]) THEN 1 ELSE 0), "it_eq", c, c, d)

\* *it.
Dereference(c) ==
    /\ Running /\ Usable(c)
    /\ ItStep(ItDeref(vec, Mem(heap), it[c]), "deref", c, c, 0)

\* v.at(index).
DoAt(v, cap) ==
    /\ Running /\ vec[v].alive
    /\ \E index \in 0 .. cap :
           /\ last' = Call("at", v, index, 0, At(vec, Mem(heap), v, index).err,
                           At(vec, Mem(heap), v, index).ret, Mem(heap))
           /\ UNCHANGED <<vec, heap, it, ub, hist>>

\* v == other.
DoEquals(v) ==
    /\ Running /\ vec[v].alive
    /\ \E other \in Vecs :
           /\ vec[other].alive
           /\ last' = Call("vec_eq", v, other, 0, "none",
                           IF VecEq(vec, Mem(heap), v, other) THEN 1 ELSE 0, Mem(heap))
           /\ UNCHANGED <<vec, heap, it, ub, hist>>

\* One container; the iterators handed to it are temporaries.
Next ==
    \/ DefaultConstruct(1)
    \/ CapacityConstruct(1, MaxCap)
    \/ Destroy(1)
    \/ DoPushBack(1, MaxCap)
    \/ DoPopBack(1)
    \/ DoEraseRange(1)
    \/ DoSwapAt(1)
    \/ DoResize(1, MaxCap)
    \/ DoClear(1)
    \/ DoAt(1, MaxCap)

Spec == Init /\ [][Next]_vars

\* One container and the iterators callers keep across its mutations.
NextIt ==
    \/ DoPushBack(1, ItCap)
    \/ DoPopBack(1)
    \/ DoErase(1)
    \/ DoSwapElements(1)
    \/ DoResize(1, ItCap)
    \/ DoClear(1)
    \/ DoAt(1, ItCap)
    \/ \E c \in Its : TakeBegin(c)
    \/ \E c \in Its : TakeEnd(c)
    \/ \E c \in Its : Increment(c)
    \/ \E c \in Its : Decrement(c)
    \/ \E c \in Its : AddAssign(c)
    \/ \E c \in Its : SubAssign(c)
    \/ \E c \in Its : Plus(c)
    \/ \E c \in Its : Minus(c)
    \/ \E c \in Its : Dereference(c)

SpecIt == Init /\ [][NextIt]_vars

\* Two containers: a, and b constructed from it, assigned to and from it, destroyed.
NextPair ==
    \/ DefaultConstruct(2)
    \/ CapacityConstruct(2, PairCap)
    \/ CopyConstruct(2)
    \/ MoveConstruct(2)
    \/ \E v \in Vecs : CopyAssign(v)
    \/ \E v \in Vecs : MoveAssign(v)
    \/ Destroy(2)
    \/ \E v \in Vecs : DoPushBack(v, PairCap)
    \/ \E v \in Vecs : DoPopBack(v)
    \/ \E v \in Vecs : DoEraseRange(v)
    \/ \E v \in Vecs : DoSwapAt(v)
    \/ \E v \in Vecs : DoResize(v, PairCap)
    \/ \E v \in Vecs : DoClear(v)

SpecPair == Init /\ [][NextPair]_vars

\* Two containers that only grow, and iterators into both, compared and subtracted.
NextCursors ==
    \/ DefaultConstruct(2)
    \/ \E v \in Vecs : DoPushBack(v, PairCap)
    \/ \E c \in Its : TakeBegin(c)
    \/ \E c \in Its : TakeEnd(c)
    \/ \E c \in Its : Increment(c)
    \/ \E c \in Its : Difference(c)
    \/ \E c \in Its : Compare(c)

SpecCursors == Init /\ [][NextCursors]_vars

\* Two containers that reach their contents in different ways (appends, a
\* capacity given at construction, resize), compared with operator==.
NextEquals ==
    \/ DefaultConstruct(2)
    \/ CapacityConstruct(2, PairCap)
    \/ Destroy(2)
    \/ \E v \in Vecs : DoPushBack(v, PairCap)
    \/ \E v \in Vecs : DoPopBack(v)
    \/ \E v \in Vecs : DoResize(v, PairCap)
    \/ \E v \in Vecs : DoEquals(v)

SpecEquals == Init /\ [][NextEquals]_vars

\* Two containers of at most ErrCap elements and iterators into both: every
\* operation that checks its argument and throws VectorException.
NextErrors ==
    \/ DefaultConstruct(2)
    \/ \E v \in Vecs : DoPushBack(v, ErrCap)
    \/ \E v \in Vecs : DoPopBack(v)
    \/ \E v \in Vecs : DoAt(v, ErrCap)
    \/ \E c \in Its : TakeBegin(c)
    \/ \E c \in Its : TakeEnd(c)
    \/ \E c \in Its : Increment(c)
    \/ \E c \in Its : Decrement(c)
    \/ \E c \in Its : AddAssign(c)
    \/ \E c \in Its : SubAssign(c)
    \/ \E c \in Its : Plus(c)
    \/ \E c \in Its : Minus(c)
    \/ \E c \in Its : Dereference(c)
    \/ \E c \in Its : Difference(c)

SpecErrors == Init /\ [][NextErrors]_vars

\* ------------------------------------------------------------- properties
\* element(k) of container v: the value in slot k of its array.
Elem(vs, hp, v, k) == hp[vs[v].m_buffer][k + 1].val
\* The elements of container v in index order.
Elems(vs, hp, v) == [k \in 0 .. (vs[v].m_size - 1) |-> Elem(vs, hp, v, k)]

\* C1: in every state reached without an access outside an array, every
\* constructed container has 0 <= m_size <= m_capacity.
C1_LengthWithinCapacity ==
    ~ub => \A v \in Vecs :
               vec[v].alive => (0 <= vec[v].m_size /\ vec[v].m_size <= vec[v].m_capacity)

\* C2: in every state, slot i of a constructed container's array holds a live
\* object if and only if i < m_size.
C2_LiveExactlyBelowLength ==
    \A v \in Vecs :
        (vec[v].alive /\ Intact(v)) =>
            \A i \in 0 .. (vec[v].m_capacity - 1) :
                heap[vec[v].m_buffer][i + 1].live <=> i < vec[v].m_size

\* C3: a call that ends with the allocation failure leaves every container and
\* the storage exactly as they were before the call.
C3_AllocationFailureKeepsState ==
    [][last'.err = "bad_alloc" => (vec' = vec /\ heap' = heap)]_vars

\* What C4 asks of one call: erase(begin() + i, begin() + j) with
\* 0 <= i <= j <= n on a container of
\* length n leaves length n - (j - i) and the capacity unchanged; element(k) is
\* unchanged for k < i and is the former element(k + (j - i)) for k >= i.
C4_EraseStep ==
    (last'.op = "erase" /\ last'.n1 <= last'.n2 /\ last'.n2 <= vec[last'.v].m_size) =>
        LET v == last'.v
            i == last'.n1
            j == last'.n2
            n == vec[v].m_size
        IN  /\ vec'[v].m_size = n - (j - i)
            /\ vec'[v].m_capacity = vec[v].m_capacity
            /\ \A k \in 0 .. (n - (j - i) - 1) :
                   Elem(vec', heap', v, k) =
                       IF k < i THEN Elem(vec, heap, v, k) ELSE Elem(vec, heap, v, k + (j - i))

\* C4: every erase of [i, j) with 0 <= i <= j <= n from a container of length n
\* leaves length n - (j - i), the capacity, the elements before i, and the
\* elements from j on moved down by j - i.
C4_EraseRemovesRange == [][C4_EraseStep]_vars

\* C4's case: a range with elements before it and after it was removed.
C4_Witness ==
    /\ last.op = "erase" /\ Running
    /\ 0 < last.n1 /\ last.n1 < last.n2 /\ last.n1 < vec[last.v].m_size
    /\ Elem(vec, heap, last.v, 0) # Elem(vec, heap, last.v, last.n1)

\* C5: erase(start, end) with start.index >= end.index, both within [0, m_size],
\* that stays inside the array changes neither a container nor the storage.
C5_EmptyRangeIsNoOp ==
    [][(last'.op = "erase" /\ last'.n1 >= last'.n2 /\ ~ub') => (vec' = vec /\ heap' = heap)]_vars

\* C6: an iterator left by ++, --, +=, -= or returned by + or - without an
\* exception has an index within [0, m_size] of its container at that moment.
C6_IteratorWithinLength ==
    [][(last'.op \in {"++", "--", "+=", "-=", "+", "-"} /\ last'.err = "none") =>
          it'[last'.n1].index <= vec[it'[last'.n1].m_container].m_size]_vars

\* C7: for an iterator at index p and every offset n of the size type, += n and
\* + n throw when p + n > m_size, also when p + n wraps, and otherwise succeed
\* with index p + n.
C7_AdvanceDetectsOverflow ==
    \A c \in Its :
        Usable(c) =>
            \A n \in SizeT :
                LET p == it[c].index
                    len == vec[it[c].m_container].m_size
                IN  IF p + n > len
                    THEN /\ ItAddAssign(vec, it[c], n).err = "out_of_range"
                         /\ ItPlus(vec, it[c], n).err = "out_of_range"
                    ELSE /\ ItAddAssign(vec, it[c], n) = ItOut(ItRec(it[c].m_container, p + n), "none", 0)
                         /\ ItPlus(vec, it[c], n) = ItOut(ItRec(it[c].m_container, p + n), "none", 0)

\* The smallest power of two >= m; 0 for m = 0.
Pow2Ceil(m) ==
    IF m = 0
    THEN 0
    ELSE CHOOSE q \in {2 ^ e : e \in 0 .. SizeBits} :
             q >= m /\ \A r \in {2 ^ e : e \in 0 .. SizeBits} : r >= m => q <= r

\* C8, first part: a container default-constructed and then only appended to
\* has the smallest power of two >= its length as capacity (0 when empty).
C8_CapacityAfterAppends ==
    hist = "appended" => vec[1].m_capacity = Pow2Ceil(vec[1].m_size)

\* C8, second part: a push_back that returns found length = capacity and left
\* capacity max(1, 2 * capacity), or found length < capacity and left capacity
\* as it was; it left one element more.
C8_PushBackStep ==
    (last'.op = "push_back" /\ last'.err = "none") =>
        LET v == last'.v
            c == vec[v].m_capacity
        IN  /\ vec'[v].m_size = vec[v].m_size + 1
            /\ vec'[v].m_capacity =
                   IF vec[v].m_size = c THEN (IF 2 * c > 1 THEN 2 * c ELSE 1) ELSE c

\* C8: appending doubles the capacity: 1, 2, 4, ... from an empty container.
C8_GrowthDoubling == [](C8_CapacityAfterAppends) /\ [][C8_PushBackStep]_vars

\* C8's case: three appends from the empty container went through capacities
\* 1, 2 and 4.
C8_Witness ==
    /\ hist = "appended" /\ last.op = "push_back" /\ last.err = "none"
    /\ vec[1].m_size = 3 /\ vec[1].m_capacity = 4

\* C9, the copy: a copy constructor or copy assignment that returns leaves the
\* target with the source's length, capacity and elements, in storage of its
\* own, and the source as it was.
C9_CopyStep ==
    (last'.op \in {"Vector_copy", "copy_assign"} /\ last'.err = "none" /\ last'.v # last'.n1) =>
        LET b == last'.v
            a == last'.n1
        IN  /\ vec'[b].m_size = vec[a].m_size
            /\ vec'[b].m_capacity = vec[a].m_capacity
            /\ Elems(vec', heap', b) = Elems(vec, heap, a)
            /\ Elems(vec', heap', a) = Elems(vec, heap, a)
            /\ vec'[a].m_size = vec[a].m_size
            /\ vec'[b].m_buffer = NullBuf \/ vec'[b].m_buffer # vec'[a].m_buffer

\* C9, independence: once one container was copied from the other, a mutator
\* called on either leaves the length and the elements of the other unchanged.
C9_MutatorStep ==
    (hist = "copied" /\ last'.op \in Mutators) =>
        \A w \in Vecs \ {last'.v} :
            vec[w].alive =>
                /\ vec'[w].m_size = vec[w].m_size
                /\ Elems(vec', heap', w) = Elems(vec, heap, w)

\* C9: a copy equals its source and is independent of it.
C9_CopyIndependence == [][C9_CopyStep /\ C9_MutatorStep]_vars

\* The arrays allocated and the containers holding one.
Allocated(hp) == {b \in Bufs : hp[b] # <<>>}
Holders(vs) == {v \in Vecs : vs[v].m_buffer # NullBuf}

\* What C10 asks of one call: a move constructor or move assignment between
\* distinct containers leaves the source with length 0, capacity 0 and no storage, the target with
\* the source's former length, capacity and array (hence its elements in
\* order), and every array held by exactly one container.
C10_MoveStep ==
    (last'.op \in {"Vector_move", "move_assign"} /\ last'.v # last'.n1) =>
        LET b == last'.v
            a == last'.n1
        IN  /\ vec'[a] = VecRec(TRUE, 0, 0, NullBuf)
            /\ vec'[b].alive
            /\ vec'[b].m_size = vec[a].m_size
            /\ vec'[b].m_capacity = vec[a].m_capacity
            /\ (vec'[b].m_buffer = NullBuf) = (vec[a].m_buffer = NullBuf)
            /\ vec'[b].m_buffer # NullBuf => heap'[vec'[b].m_buffer] = heap[vec[a].m_buffer]
            /\ \A w \in Vecs \ {b} : vec'[w].m_buffer = NullBuf \/ vec'[w].m_buffer # vec'[b].m_buffer
            /\ Cardinality(Allocated(heap')) = Cardinality(Holders(vec'))

\* C10: every move between distinct containers leaves the source empty with no
\* storage, the target with the source's former length, capacity and elements,
\* and each array owned by exactly one container.
C10_MoveLeavesSourceEmpty == [][C10_MoveStep]_vars

\* C10's case: a move assignment took two elements from the other container.
C10_Witness ==
    /\ last.op = "move_assign" /\ last.v # last.n1
    /\ vec[last.v].m_size = 2 /\ vec[last.n1].alive

\* What C11 asks of one dereference: it throws exactly when the iterator's index
\* is >= its container's m_size now, and otherwise yields the element at that
\* index now.
C11_DerefStep ==
    last'.op = "deref" =>
        LET x == it[last'.v]
            v == x.m_container
        IN  IF x.index >= vec[v].m_size
            THEN last'.err = "out_of_range"
            ELSE last'.err = "none" /\ last'.ret = Elem(vec, heap, v, x.index)

\* What C11 asks across a mutation of the owner: an iterator at end() can be
\* dereferenced once push_back returned; an iterator at the last element
\* throws once pop_back, clear or a resize below its index + 1 returned.
C11_MutationStep ==
    \A c \in Its :
        LET x == it[c]
            v == x.m_container
        IN  (v # 0 /\ last'.v = v /\ last'.err = "none") =>
                /\ (last'.op = "push_back" /\ x.index = vec[v].m_size) =>
                       /\ ItDeref(vec', Mem(heap'), x).err = "none"
                       /\ ItDeref(vec', Mem(heap'), x).ret = Elem(vec', heap', v, x.index)
                /\ (/\ x.index + 1 = vec[v].m_size
                    /\ \/ last'.op \in {"pop_back", "clear"}
                       \/ last'.op = "resize" /\ last'.n1 <= x.index) =>
                       ItDeref(vec', Mem(heap'), x).err = "out_of_range"

\* C11: operator* and operator-> throw exactly when index >= m_size at the
\* moment of the call, whatever m_size was when the iterator was taken, and
\* otherwise yield the container's element at index.
C11_DereferenceChecksLiveLength == [][C11_DerefStep /\ C11_MutationStep]_vars

\* C11's case: push_back has just returned while an iterator stood at the
\* former end(), and dereferencing it now yields the appended value.
C11_Witness ==
    /\ last.op = "push_back" /\ last.err = "none" /\ vec[1].m_size = 2
    /\ \E c \in Its :
           /\ it[c] = ItRec(1, vec[1].m_size - 1)
           /\ ItDeref(vec, Mem(heap), it[c]).err = "none"
           /\ ItDeref(vec, Mem(heap), it[c]).ret \in Values

\* What C12 asks of one call: at(i) throws iff i >= m_size, pop_back throws iff
\* m_size = 0, ++ throws iff the iterator's index >= its container's m_size.
C12_BoundsStep ==
    /\ last'.op = "at" =>
           (last'.err = "out_of_range" <=> last'.n1 >= vec[last'.v].m_size)
    /\ last'.op = "pop_back" =>
           (last'.err = "empty" <=> vec[last'.v].m_size = 0)
    /\ last'.op = "++" =>
           (last'.err = "out_of_range" <=> it[last'.v].index >= vec[it[last'.v].m_container].m_size)
    /\ last'.op \in {"at", "pop_back", "++"} => last'.err \in {"none", "out_of_range", "empty"}

\* C12: at, pop_back and operator++ throw exactly on the bounds violations.
C12_BoundsViolationsThrow == [][C12_BoundsStep]_vars

\* C12's case: at(m_size) on a container holding elements has thrown.
C12_Witness ==
    /\ last.op = "at" /\ last.err = "out_of_range"
    /\ last.n1 = vec[1].m_size /\ vec[1].m_size = ItCap

\* What C13 asks of one call it - other: it throws when the two iterators point
\* into distinct containers, and otherwise returns index - other.index, signed.
C13_DiffStep ==
    last'.op = "diff" =>
        LET x == it[last'.v]
            y == it[last'.n2]
        IN  IF x.m_container # y.m_container
            THEN last'.err = "cross_container"
            ELSE last'.err = "none" /\ last'.ret = x.index - y.index

\* C13: the difference of two iterators throws for distinct containers,
\* whatever their indices and contents, and is the signed distance otherwise.
C13_CrossContainerDifferenceThrows == [][C13_DiffStep]_vars

\* C13's case: the difference of iterators at the same index of two containers
\* with equal contents has thrown.
C13_Witness ==
    /\ last.op = "diff" /\ last.err = "cross_container"
    /\ it[1].m_container # it[2].m_container /\ it[1].index = it[2].index
    /\ vec[2].alive /\ vec[1].m_size = 1 /\ vec[2].m_size = 1
    /\ Elems(vec, heap, 1) = Elems(vec, heap, 2)

\* C13's other case: a difference within one container came out negative.
C13_NegativeReached ==
    last.op = "diff" /\ last.err = "none" /\ last.ret < 0

\* What C14 asks of one resize(new_capacity) that returns: m_capacity is
\* new_capacity, m_size is the smaller of the former m_size and new_capacity,
\* every element below the new m_size is the former one, and with
\* new_capacity = 0 the container holds no array and none is left allocated.
C14_ResizeStep ==
    (last'.op = "resize" /\ last'.err = "none") =>
        LET v == last'.v
            n == last'.n1
            len == IF vec[v].m_size < n THEN vec[v].m_size ELSE n
        IN  /\ vec'[v].m_capacity = n
            /\ vec'[v].m_size = len
            /\ \A k \in 0 .. (len - 1) : Elem(vec', heap', v, k) = Elem(vec, heap, v, k)
            /\ n = 0 => (vec'[v].m_buffer = NullBuf /\ Allocated(heap') = {})
            /\ n > 0 => (vec'[v].m_buffer # NullBuf /\ Len(heap'[vec'[v].m_buffer]) = n)

\* C14: resize sets the capacity exactly, truncates the length to it and keeps
\* the surviving elements.
C14_ResizeSetsCapacity == [][C14_ResizeStep]_vars

\* C14's case: a resize to a capacity between 2 and MaxCap - 1 returned and left
\* a full container with distinct elements.
C14_Witness ==
    /\ last.op = "resize" /\ last.err = "none"
    /\ last.n1 >= 2 /\ last.n1 < MaxCap
    /\ vec[1].m_size = last.n1 /\ vec[1].m_capacity = last.n1
    /\ Elem(vec, heap, 1, 0) # Elem(vec, heap, 1, 1)

\* The outcome of a.push_back(x); a.pop_back(); from the present state, the
\* allocation succeeding.
AppendThenPop(v, x) ==
    LET R1 == PushBack(vec, Mem(heap), v, x, TRUE)
    IN  IF R1.err # "none" THEN R1 ELSE PopBack(R1.vec, R1.mem, v)

\* C15, from any state: push_back(x) followed at once by pop_back() restores
\* m_size and every element below it, and leaves m_capacity at least what it was.
C15_AppendThenPopRestores ==
    \A v \in Vecs :
        (Running /\ vec[v].alive /\ (vec[v].m_size < vec[v].m_capacity \/ vec[v].m_capacity * 2 <= MaxCap)) =>
            \A x \in Values :
                \E R \in {AppendThenPop(v, x)} :
                    /\ R.err = "none" /\ ~R.mem.ub
                    /\ R.vec[v].m_size = vec[v].m_size
                    /\ R.vec[v].m_capacity >= vec[v].m_capacity
                    /\ \A i \in 0 .. (vec[v].m_size - 1) :
                           Elem(R.vec, R.mem.heap, v, i) = Elem(vec, heap, v, i)

\* C15, in a run: the pop_back that follows a push_back takes m_size back by
\* one and leaves the capacity and the elements below the new m_size alone.
C15_PopAfterPushStep ==
    (last.op = "push_back" /\ last.err = "none" /\ last'.op = "pop_back" /\ last'.v = last.v) =>
        LET v == last'.v
        IN  /\ last'.err = "none"
            /\ vec'[v].m_size = vec[v].m_size - 1
            /\ vec'[v].m_capacity = vec[v].m_capacity
            /\ \A i \in 0 .. (vec'[v].m_size - 1) : Elem(vec', heap', v, i) = Elem(vec, heap, v, i)

\* C15: appending and then removing the last element is a round trip for the
\* length and the elements, with or without growth.
C15_AppendPopRoundTrip == [](C15_AppendThenPopRestores) /\ [][C15_PopAfterPushStep]_vars

\* C15's case: after appends only, a push_back that grew the array from 2 to 4
\* was followed at once by pop_back.
C15_Witness ==
    /\ hist = "roundtrip" /\ last.op = "pop_back" /\ last.err = "none"
    /\ vec[1].m_size = 2 /\ vec[1].m_capacity = 4
    /\ Elem(vec, heap, 1, 0) # Elem(vec, heap, 1, 1)

\* C16: in every state, every constructed container has m_buffer non-null if
\* and only if m_capacity > 0.
C16_StorageIffCapacity ==
    \A v \in Vecs : vec[v].alive => ((vec[v].m_buffer # NullBuf) <=> (vec[v].m_capacity > 0))

\* What C17 asks of one call it == other: it returns true exactly when the two
\* iterators point into the same container and have the same index.
C17_CompareStep ==
    last'.op = "it_eq" =>
        LET x == it[last'.v]
            y == it[last'.n2]
        IN  /\ last'.err = "none" /\ last'.ret \in {0, 1}
            /\ (last'.ret = 1) <=> (x.m_container = y.m_container /\ x.index = y.index)

\* C17: two iterators are equal iff they have the same container and index;
\* iterators into distinct containers are never equal.
C17_IteratorEquality == [][C17_CompareStep]_vars

\* C17's case: iterators at index 0 of two distinct empty containers were
\* compared and found unequal.
C17_Witness ==
    /\ last.op = "it_eq" /\ last.ret = 0
    /\ it[1].m_container # 0 /\ it[2].m_container # 0
    /\ it[1].m_container # it[2].m_container
    /\ it[1].index = 0 /\ it[2].index = 0
    /\ vec[2].alive /\ vec[1].m_size = 0 /\ vec[2].m_size = 0

\* What C18 asks of one call a == b: it returns true exactly when the two
\* containers have the same m_size and equal elements at every index below it.
C18_EqualsStep ==
    last'.op = "vec_eq" =>
        LET a == last'.v
            b == last'.n1
        IN  /\ last'.err = "none" /\ last'.ret \in {0, 1}
            /\ (last'.ret = 1) <=>
                   /\ vec[a].m_size = vec[b].m_size
                   /\ \A i \in 0 .. (vec[a].m_size - 1) : Elem(vec, heap, a, i) = Elem(vec, heap, b, i)

\* C18: operator== on containers is equality of length and of the elements,
\* whatever the capacities.
C18_StructuralEquality == [][C18_EqualsStep]_vars

\* C18's case: two non-empty containers of different capacities were compared
\* and found equal.
C18_Witness ==
    /\ last.op = "vec_eq" /\ last.ret = 1 /\ last.v # last.n1
    /\ vec[1].m_size >= 1 /\ vec[1].m_capacity # vec[2].m_capacity

\* C18's other case: two containers of equal length were compared and found
\* different.
C18_UnequalReached ==
    /\ last.op = "vec_eq" /\ last.ret = 0
    /\ vec[last.v].m_size = vec[last.n1].m_size

\* C19: no call runs a destructor on a slot that holds no live object, and no
\* call assigns to a slot that holds no live object.
C19_NoDeadSlotDestructedOrAssigned == ~last.dtorDead /\ ~last.asgDead

\* The errors the checked operations signal: VectorException from at, pop_back,
\* the iterator arithmetic, the dereference and the iterator difference.
CheckedErrors == {"out_of_range", "empty", "cross_container"}

\* What C20 asks of one call that signals such an error: every container, the
\* storage and every iterator are as they were before the call.
C20_ErrorStep ==
    last'.err \in CheckedErrors => (vec' = vec /\ heap' = heap /\ it' = it /\ ub' = ub)

\* C20: an operation that throws VectorException changes nothing.
C20_ErrorsLeaveStateUnchanged == [][C20_ErrorStep]_vars

\* C20's case: an iterator operation on a non-empty container has thrown while
\* the other iterator points into the other container.
C20_Witness ==
    /\ last.err = "out_of_range" /\ last.op \in {"++", "--", "+=", "-=", "+", "-", "deref"}
    /\ vec[2].alive /\ vec[1].m_size >= 1 /\ vec[2].m_size >= 1
    /\ it[1].m_container # 0 /\ it[2].m_container # 0 /\ it[1].m_container # it[2].m_container

====
